---- MODULE Spec2Model ----
(***************************************************************************)
(* numpoly: alignment of polynomial arrays (src/numpoly/align.py) and the  *)
(* element-wise sum built on it (src/numpoly/array_function/add.py).       *)
(*                                                                         *)
(* A dense array (numpy.ndarray) is a record [shape, dtype, data] whose    *)
(* data is the row-major list of its elements.  A polynomial array         *)
(* (numpoly.ndpoly) is a record [names, exponents, coefficients]: one      *)
(* exponent tuple and one dense coefficient array per term slot.           *)
(*                                                                         *)
(* Coefficient values are integers far inside the range every modelled     *)
(* dtype represents exactly; 64-bit wrap-around and rounding of integers   *)
(* above 2^53 are outside the value range of the model.                    *)
(***************************************************************************)
EXTENDS Integers, Sequences, FiniteSets, TLC

\* args:   the polynomial arrays the caller holds and passes to the next call
\* op:     "input" before the call, the name of the function after it
\* res:    what the call returned ([err, val]; err names the exception raised)
\* origin: the function whose result args is ("input" for the first arguments)
\* fuel:   what is left of the budget
\* resId:  the identity of every returned object: argument i is object i, an
\*         object the call allocated has a number above Len(args)
\* wrote:  the last add(..., out=..., where=...) into a returned array: its
\*         exception, the place k of out in res.val, where, the object add
\*         returned, and args and res.val as they were before it
VARIABLES args, op, res, origin, fuel, resId, wrote

vars == <<args, op, res, origin, fuel, resId, wrote>>

(***************************************************************************)
(* Bound of the model: the weight of the arguments of a run (NameCost,     *)
(* ShapeCost, ... below) plus ChainCost for every call made on a result.   *)
(***************************************************************************)
Budget == 4

(***************************************************************************)
(* Generic helpers.                                                        *)
(***************************************************************************)
Range(s) == {s[i] : i \in DOMAIN s}

Max(a, b) == IF a >= b THEN a ELSE b

SetMin(S) == CHOOSE m \in S : \A k \in S : m <= k

RECURSIVE SortedSeq(_)
SortedSeq(S) ==
    IF S = {} THEN <<>> ELSE <<SetMin(S)>> \o SortedSeq(S \ {SetMin(S)})

RECURSIVE SumSeq(_)
SumSeq(s) == IF s = <<>> THEN 0 ELSE Head(s) + SumSeq(Tail(s))

Ok(v) == [err |-> "none", val |-> v]

Raise(e) == [err |-> e, val |-> <<>>]

(***************************************************************************)
(* numpy: shapes, broadcasting, element-wise arithmetic, dtypes.           *)
(***************************************************************************)
RECURSIVE Prod(_)
Prod(shape) == IF shape = <<>> THEN 1 ELSE Head(shape) * Prod(Tail(shape))

\* multi-index (0-based) of the 0-based flat index i of an array of that shape
RECURSIVE Unravel(_, _)
Unravel(i, shape) ==
    IF shape = <<>> THEN <<>>
    ELSE LET rest == Prod(Tail(shape))
         IN  <<i \div rest>> \o Unravel(i % rest, Tail(shape))

RECURSIVE Ravel(_, _)
Ravel(idx, shape) ==
    IF shape = <<>> THEN 0
    ELSE Head(idx) * Prod(Tail(shape)) + Ravel(Tail(idx), Tail(shape))

PadLeft(shape, n) ==
    [i \in 1..n |-> IF i <= n - Len(shape) THEN 1 ELSE shape[i - (n - Len(shape))]]

\* numpy's broadcasting rule: trailing-aligned, each pair equal or one of them 1
Broadcastable(a, b) ==
    LET n == Max(Len(a), Len(b))
    IN  \A i \in 1..n :
            \/ PadLeft(a, n)[i] = PadLeft(b, n)[i]
            \/ PadLeft(a, n)[i] = 1
            \/ PadLeft(b, n)[i] = 1

BroadcastShape(a, b) ==
    LET n == Max(Len(a), Len(b))
    IN  [i \in 1..n |-> IF PadLeft(a, n)[i] = 1 THEN PadLeft(b, n)[i]
                        ELSE PadLeft(a, n)[i]]

\* the data of an array of shape `from` seen at shape `to`
BroadcastTo(data, from, to) ==
    LET n  == Len(to)
        pf == PadLeft(from, n)
    IN  [i \in 1..Prod(to) |->
            LET t == Unravel(i - 1, to)
                s == [k \in 1..n |-> IF pf[k] = 1 THEN 0 ELSE t[k]]
            IN  data[1 + Ravel(s, pf)]]

Nd(shape, dtype, data) == [shape |-> shape, dtype |-> dtype, data |-> data]

Zeros(shape, dtype) == Nd(shape, dtype, [i \in 1..Prod(shape) |-> 0])

Ones(shape, dtype) == Nd(shape, dtype, [i \in 1..Prod(shape) |-> 1])

\* numpy.any(a)
numpy_any(a) == \E i \in DOMAIN a.data : a.data[i] # 0

\* numpy.result_type of two dtypes
ResultType(a, b) ==
    IF a = "float64" \/ b = "float64" THEN "float64"
    ELSE IF a = "int64" \/ b = "int64" THEN "int64"
    ELSE "int32"

RECURSIVE ResultTypeAll(_)
ResultTypeAll(dtypes) ==
    IF Len(dtypes) = 1 THEN dtypes[1]
    ELSE ResultType(Head(dtypes), ResultTypeAll(Tail(dtypes)))

\* a * b of two arrays whose shapes are broadcastable
Multiply(a, b) ==
    LET shape == BroadcastShape(a.shape, b.shape)
        da    == BroadcastTo(a.data, a.shape, shape)
        db    == BroadcastTo(b.data, b.shape, shape)
    IN  Nd(shape, ResultType(a.dtype, b.dtype),
           [i \in 1..Prod(shape) |-> da[i] * db[i]])

\* a + b of two arrays of one shape
Plus(a, b) ==
    Nd(a.shape, ResultType(a.dtype, b.dtype),
       [i \in DOMAIN a.data |-> a.data[i] + b.data[i]])

\* ndarray.astype: an upcast keeps every value
AsType(a, dtype) == Nd(a.shape, dtype, [i \in DOMAIN a.data |-> a.data[i]])

(***************************************************************************)
(* numpoly.ndpoly and its normalising constructor.                         *)
(***************************************************************************)
Poly(names, exponents, coefficients) ==
    [names |-> names, exponents |-> exponents, coefficients |-> coefficients]

ShapeOf(poly) == poly.coefficients[1].shape

DtypeOf(poly) == poly.coefficients[1].dtype

SizeOf(poly) == Prod(ShapeOf(poly))

\* the indices of the first occurrence of every distinct exponent tuple
FirstSeen(exponents) ==
    SortedSeq({i \in DOMAIN exponents :
                  \A j \in 1..(i - 1) : exponents[j] # exponents[i]})

RECURSIVE SumArrays(_)
SumArrays(arrays) ==
    IF Len(arrays) = 1 THEN arrays[1]
    ELSE Plus(Head(arrays), SumArrays(Tail(arrays)))

\* the coefficients of one exponent tuple, in slot order
Group(exponents, coefficients, e) ==
    LET idx == SortedSeq({i \in DOMAIN exponents : exponents[i] = e})
    IN  [k \in DOMAIN idx |-> coefficients[idx[k]]]

\* drop the term slots that are zero at every position; never drop them all
clean_attributes(poly) ==
    LET keep == SortedSeq({i \in DOMAIN poly.exponents :
                              numpy_any(poly.coefficients[i])})
    IN  IF keep = <<>>
        THEN Poly(poly.names,
                  <<[k \in DOMAIN poly.names |-> 0]>>,
                  <<Zeros(ShapeOf(poly), DtypeOf(poly))>>)
        ELSE Poly(poly.names,
                  [k \in DOMAIN keep |-> poly.exponents[keep[k]]],
                  [k \in DOMAIN keep |-> poly.coefficients[keep[k]]])

\* every exponent tuple has one entry per name
ArityOk(exponents, names) ==
    \A i \in DOMAIN exponents : Len(exponents[i]) = Len(names)

\* from_attributes(exponents, coefficients, names, dtype, clean); dtype "None"
\* keeps the dtype of the coefficients
from_attributes(exponents, coefficients, names, dtype, clean) ==
    LET first  == FirstSeen(exponents)
        merged == Poly(names,
                       [k \in DOMAIN first |-> exponents[first[k]]],
                       [k \in DOMAIN first |->
                           LET sum == SumArrays(Group(exponents, coefficients,
                                                      exponents[first[k]]))
                           IN  IF dtype = "None" THEN sum ELSE AsType(sum, dtype)])
    IN  IF clean THEN clean_attributes(merged) ELSE merged

\* no term with a non-zero exponent has a non-zero coefficient
isconstant(poly) ==
    \A i \in DOMAIN poly.exponents :
        (\E k \in DOMAIN poly.exponents[i] : poly.exponents[i][k] # 0)
            => ~numpy_any(poly.coefficients[i])

(***************************************************************************)
(* src/numpoly/align.py                                                    *)
(***************************************************************************)
\* `common` is the Python int 1 (kind "int") until the first array with
\* elements is met, then an int64 array of ones (kind "array")
PyOne == [kind |-> "int", shape |-> <<>>]

\* the loop over polys that builds `common`; kind "error" when numpy refuses
\* to broadcast ones(shape)*common
RECURSIVE CommonAfter(_, _)
CommonAfter(polys, common) ==
    IF polys = <<>> \/ common.kind = "error" THEN common
    ELSE LET poly == Head(polys)
         IN  CommonAfter(Tail(polys),
                 IF SizeOf(poly) = 0 THEN common
                 ELSE IF common.kind = "int"
                 THEN [kind |-> "array", shape |-> ShapeOf(poly)]
                 ELSE IF Broadcastable(ShapeOf(poly), common.shape)
                 THEN [kind  |-> "array",
                       shape |-> BroadcastShape(ShapeOf(poly), common.shape)]
                 ELSE [kind |-> "error", shape |-> <<>>])

\* coeff+common where the code has coeff*common
TimesCommonAdds(coeff, common) ==
    IF common.kind = "int"
    THEN Nd(coeff.shape, coeff.dtype, [i \in DOMAIN coeff.data |-> coeff.data[i] + 1])
    ELSE LET product == Multiply(coeff, Ones(common.shape, "int64"))
         IN  Nd(product.shape, product.dtype,
                [i \in DOMAIN product.data |-> product.data[i] + 1])

\* coeff*common
TimesCommon(coeff, common) ==
    IF common.kind = "int"
    THEN Nd(coeff.shape, coeff.dtype, [i \in DOMAIN coeff.data |-> coeff.data[i] * 1])
    ELSE Multiply(coeff, Ones(common.shape, "int64"))

\* the rebuilt arrays, or the error numpy raises on coeff*common
Broadcasted(polys, common) ==
    IF \/ common.kind = "error"
       \/ /\ common.kind = "array"
          /\ \E i \in DOMAIN polys :
                 ~Broadcastable(ShapeOf(polys[i]), common.shape)
    THEN Raise("ValueError")
    ELSE Ok([i \in DOMAIN polys |->
                from_attributes(
                    polys[i].exponents,
                    [k \in DOMAIN polys[i].coefficients |->
                        TimesCommon(polys[i].coefficients[k], common)],
                    polys[i].names,
                    "None",
                    TRUE)])

align_shape(polys) == Broadcasted(polys, CommonAfter(polys, PyOne))

\* the lexicographic order of the indeterminant names of the model
Alphabet == <<"q", "x", "y">>

NameRank(name) == CHOOSE r \in DOMAIN Alphabet : Alphabet[r] = name

\* sorted({name for poly in polys if not poly.isconstant() for name in poly.names})
common_names(polys) ==
    LET used  == UNION {Range(polys[i].names) :
                           i \in {j \in DOMAIN polys : ~isconstant(polys[j])}}
        ranks == SortedSeq({NameRank(name) : name \in used})
    IN  [k \in DOMAIN ranks |-> Alphabet[ranks[k]]]

IndexOf(seq, x) == CHOOSE i \in DOMAIN seq : seq[i] = x

\* [common_names.index(name) for name in poly.names if name in common_names]
Indices(poly, common) ==
    LET at == SortedSeq({k \in DOMAIN poly.names : poly.names[k] \in Range(common)})
    IN  [j \in DOMAIN at |-> IndexOf(common, poly.names[at[j]])]

\* exponents[:, indices] = poly.exponents: numpy refuses the assignment when
\* some but not all of the array's names are common names
AssignFails(poly, common) ==
    /\ Len(Indices(poly, common)) > 0
    /\ Len(Indices(poly, common)) # Len(poly.names)

\* exponents[:, :len(indices)] = poly.exponents: the columns are filled in the
\* order of the array's own names, not at the places of the common names
ReindexedInOrder(poly, common) ==
    LET indices == Indices(poly, common)
    IN  [r \in DOMAIN poly.exponents |->
            [c \in DOMAIN common |->
                IF c <= Len(indices) THEN poly.exponents[r][c] ELSE 0]]

\* numpy.zeros((len(poly.keys), len(indices))): one column per name the array
\* has, not one per common name
ReindexedShort(poly, common) ==
    [r \in DOMAIN poly.exponents |->
        [c \in DOMAIN Indices(poly, common) |-> poly.exponents[r][c]]]

\* the zero matrix with the columns `indices` overwritten by poly.exponents
Reindexed(poly, common) ==
    LET indices == Indices(poly, common)
    IN  [r \in DOMAIN poly.exponents |->
            [c \in DOMAIN common |->
                IF \E j \in DOMAIN indices : indices[j] = c
                THEN poly.exponents[r][CHOOSE j \in DOMAIN indices : indices[j] = c]
                ELSE 0]]

\* the loop over polys that rebuilds each array over common_names
Renamed(polys, common) ==
    IF common = <<>> THEN Ok(polys)
    ELSE IF \E i \in DOMAIN polys : AssignFails(polys[i], common)
    THEN Raise("ValueError")
    ELSE Ok([i \in DOMAIN polys |->
                from_attributes(
                    Reindexed(polys[i], common),
                    polys[i].coefficients,
                    common,
                    "None",
                    FALSE)])

align_indeterminants(polys) == Renamed(polys, common_names(polys))

\* the extension without the test `not in global_exponents`
ExtendAll(list, more) == list \o more

\* a list extended by the elements of `more` it does not hold yet
ExtendNew(list, more) ==
    list \o SelectSeq(more, LAMBDA e : e \notin Range(list))

RECURSIVE global_exponents(_)
global_exponents(polys) ==
    IF Len(polys) = 1 THEN polys[1].exponents
    ELSE ExtendNew(global_exponents(SubSeq(polys, 1, Len(polys) - 1)),
                   polys[Len(polys)].exponents)

\* lookup.get(exponent, zeros): the dict keeps the last slot of an exponent
Lookup(poly, exponent) ==
    LET at == {i \in DOMAIN poly.exponents : poly.exponents[i] = exponent}
    IN  IF at = {} THEN Zeros(ShapeOf(poly), DtypeOf(poly))
        ELSE poly.coefficients[CHOOSE i \in at : \A j \in at : j <= i]

\* the loop over polys that rebuilds each array over global_exponents
Extended(polys, global) ==
    IF \E i \in DOMAIN polys : ~ArityOk(global, polys[i].names)
    THEN Raise("ShapeError")
    ELSE Ok([i \in DOMAIN polys |->
                from_attributes(
                    global,
                    [k \in DOMAIN global |-> Lookup(polys[i], global[k])],
                    polys[i].names,
                    "None",
                    FALSE)])

\* what follows the optional call of align_indeterminants
ExponentsOf(named) ==
    IF named.err # "none" THEN named
    ELSE Extended(named.val, global_exponents(named.val))

align_exponents(polys) ==
    ExponentsOf(IF \A i \in DOMAIN polys : polys[1].names = polys[i].names
                THEN Ok(polys)
                ELSE align_indeterminants(polys))

\* numpy.sum([numpy.array(True, dtype=poly.dtype) for poly in polys]).dtype:
\* the list becomes one array of the promoted dtype and numpy.sum adds
\* integers narrower than the platform integer in the platform integer
SumDtype(dtypes) ==
    LET promoted == ResultTypeAll(dtypes)
    IN  IF promoted = "int32" THEN "int64" ELSE promoted

align_dtype(polys) ==
    LET dtype == SumDtype([i \in DOMAIN polys |-> DtypeOf(polys[i])])
    IN  Ok([i \in DOMAIN polys |->
               from_attributes(
                   polys[i].exponents,
                   polys[i].coefficients,
                   polys[i].names,
                   dtype,
                   FALSE)])

\* each step runs on the result of the one before; an exception ends the call
IndeterminantsStep(shaped) ==
    IF shaped.err # "none" THEN shaped ELSE align_indeterminants(shaped.val)

ExponentsStep(named) ==
    IF named.err # "none" THEN named ELSE align_exponents(named.val)

DtypeStep(merged) ==
    IF merged.err # "none" THEN merged ELSE align_dtype(merged.val)

align_polynomials(polys) ==
    DtypeStep(ExponentsStep(IndeterminantsStep(align_shape(polys))))

(***************************************************************************)
(* src/numpoly/array_function/add.py                                       *)
(***************************************************************************)
\* numpy.add(a, b, out=out, where=True) raises unless a and b broadcast to
\* the shape of out
AddFits(a, b, out) ==
    /\ Broadcastable(a.shape, b.shape)
    /\ Broadcastable(BroadcastShape(a.shape, b.shape), out.shape)
    /\ BroadcastShape(BroadcastShape(a.shape, b.shape), out.shape) = out.shape

numpy_add(a, b, out) ==
    LET da == BroadcastTo(a.data, a.shape, out.shape)
        db == BroadcastTo(b.data, b.shape, out.shape)
    IN  Nd(out.shape, out.dtype, [i \in 1..Prod(out.shape) |-> da[i] + db[i]])

\* x2[key]: the coefficient of x2 stored under the key of that exponent
Item(poly, exponent) ==
    poly.coefficients[CHOOSE i \in DOMAIN poly.exponents : poly.exponents[i] = exponent]

\* the loop over x1.keys into a fresh out of x1's exponents, shape and dtype,
\* then clean_attributes
AddKeys(x1, x2, out) ==
    IF \E k \in DOMAIN x1.exponents :
           ~AddFits(x1.coefficients[k], Item(x2, x1.exponents[k]), out)
    THEN Raise("ValueError")
    ELSE Ok(<<clean_attributes(
                 Poly(x1.names,
                      x1.exponents,
                      [k \in DOMAIN x1.exponents |->
                          numpy_add(x1.coefficients[k],
                                    Item(x2, x1.exponents[k]),
                                    out)]))>>)

\* what follows x1, x2 = numpoly.align_polynomials(x1, x2)
AddAligned(aligned) ==
    IF aligned.err # "none" THEN aligned
    ELSE AddKeys(aligned.val[1], aligned.val[2],
                 Zeros(ShapeOf(aligned.val[1]), DtypeOf(aligned.val[1])))

\* add(x1, x2, out=None, where=True)
add(x1, x2) == AddAligned(align_polynomials(<<x1, x2>>))

\* where: True, False, or a boolean array of the shape of out that is True
\* at its first element only
Wheres == {"all", "none", "first"}

Selected(where, pos) == where = "all" \/ (where = "first" /\ pos = 1)

\* out[key] exists: out stores a coefficient under the key of that exponent
HasKey(out, exponent) == exponent \in Range(out.exponents)

\* the exception numpy.add(a, b, out=slot, where=where) raises, if any: the
\* operands must broadcast to slot, and a float sum is not cast to integers
AddOutError(a, b, slot) ==
    IF ~AddFits(a, b, slot) THEN "ValueError"
    ELSE IF ResultType(a.dtype, b.dtype) = "float64" /\ slot.dtype # "float64"
    THEN "TypeError"
    ELSE "none"

\* a + b written over the elements of slot ignoring where
AddEverywhere(a, b, slot, where) ==
    Nd(slot.shape, slot.dtype,
       [i \in 1..Prod(slot.shape) |->
           BroadcastTo(a.data, a.shape, slot.shape)[i]
               + BroadcastTo(b.data, b.shape, slot.shape)[i]])

\* slot after numpy.add(a, b, out=slot, where=where): the sum where the
\* condition is True, the old element elsewhere
AddWhere(a, b, slot, where) ==
    Nd(slot.shape, slot.dtype,
       [i \in 1..Prod(slot.shape) |->
           IF Selected(where, i)
           THEN BroadcastTo(a.data, a.shape, slot.shape)[i]
                    + BroadcastTo(b.data, b.shape, slot.shape)[i]
           ELSE slot.data[i]])

\* out with the coefficient under the key of `exponent` replaced
WithItem(out, exponent, slot) ==
    Poly(out.names,
         out.exponents,
         [i \in DOMAIN out.exponents |->
             IF out.exponents[i] = exponent THEN slot ELSE out.coefficients[i]])

\* the loop over x1.keys from key k on, writing into the caller's out; an
\* exception ends it and leaves in out what the earlier keys wrote
RECURSIVE AddKeysInto(_, _, _, _, _)
AddKeysInto(x1, x2, out, where, k) ==
    IF k > Len(x1.exponents) THEN [err |-> "none", out |-> out]
    ELSE IF ~HasKey(out, x1.exponents[k]) THEN [err |-> "ValueError", out |-> out]
    ELSE IF AddOutError(x1.coefficients[k], Item(x2, x1.exponents[k]),
                        Item(out, x1.exponents[k])) # "none"
    THEN [err |-> AddOutError(x1.coefficients[k], Item(x2, x1.exponents[k]),
                              Item(out, x1.exponents[k])),
          out |-> out]
    ELSE AddKeysInto(x1, x2,
                     WithItem(out, x1.exponents[k],
                              AddWhere(x1.coefficients[k],
                                       Item(x2, x1.exponents[k]),
                                       Item(out, x1.exponents[k]),
                                       where)),
                     where, k + 1)

\* what follows x1, x2 = numpoly.align_polynomials(x1, x2) when out is given
AddAlignedInto(aligned, out, where) ==
    IF aligned.err # "none" THEN [err |-> aligned.err, out |-> out]
    ELSE AddKeysInto(aligned.val[1], aligned.val[2], out, where, 1)

\* add(x1, x2, out=out, where=where): the exception raised, if any, and
\* what the caller's out holds afterwards (out itself is what add returns)
add_out(x1, x2, out, where) ==
    AddAlignedInto(align_polynomials(<<x1, x2>>), out, where)

(***************************************************************************)
(* The arguments of a run: well-formed polynomial arrays (unique names,    *)
(* one exponent per name, distinct exponent tuples, one shape and dtype    *)
(* for all coefficients), enumerated by weight.                            *)
(***************************************************************************)
NameLists == {<<"q">>, <<"x">>, <<"y">>, <<"x", "y">>, <<"y", "x">>}

NameCost(names) ==
    IF names \in {<<"q">>, <<"x">>} THEN 0
    ELSE IF names = <<"y", "x">> THEN 2 ELSE 1

Shapes == {<<>>, <<0>>, <<1>>, <<2>>, <<3>>,
           <<1, 2>>, <<2, 1>>, <<0, 2>>, <<2, 0>>}

ShapeCost(shape) ==
    Len(shape) + (IF \E i \in DOMAIN shape : shape[i] > 2 THEN 1 ELSE 0)

Dtypes == {"int32", "int64", "float64"}

DtypeCost(dtype) == IF dtype = "int64" THEN 0 ELSE 1

\* a term list weighs one per slot after the first and one per unit of degree
TermCost(exponents) ==
    Len(exponents) - 1 + SumSeq([i \in DOMAIN exponents |-> SumSeq(exponents[i])])

TuplesOfDegree(arity, d) == {t \in [1..arity -> 0..d] : SumSeq(t) = d}

\* the lists of distinct exponent tuples of weight b
RECURSIVE TermLists(_, _)
TermLists(arity, b) ==
    {<<t>> : t \in TuplesOfDegree(arity, b)}
        \cup UNION {UNION {{Append(l, t) :
                              t \in TuplesOfDegree(arity, b - b2 - 1) \ Range(l)} :
                          l \in TermLists(arity, b2)} :
                    b2 \in 0..(b - 1)}

TermTable == [arity \in 1..2 |-> [b \in 0..Budget |-> TermLists(arity, b)]]

\* the contents of a coefficient array: all 1, all 0, all -1, or 0, 1, 2, ...
Kinds(size) ==
    IF size = 0 THEN {"ones"}
    ELSE IF size = 1 THEN {"ones", "zeros", "negs"}
    ELSE {"ones", "zeros", "negs", "ramp"}

KindCost(kinds) == Cardinality({i \in DOMAIN kinds : kinds[i] # "ones"})

Filled(kind, shape, dtype) ==
    Nd(shape, dtype,
       [i \in 1..Prod(shape) |->
           CASE kind = "ones"  -> 1
             [] kind = "zeros" -> 0
             [] kind = "negs"  -> 0 - 1
             [] kind = "ramp"  -> i - 1])

PolysOfCost(c) ==
    UNION {UNION {UNION {UNION {
        {Poly(names, terms,
              [i \in DOMAIN terms |-> Filled(kinds[i], shape, dtype)]) :
            kinds \in {k \in [DOMAIN terms -> Kinds(Prod(shape))] :
                          KindCost(k) = c - NameCost(names) - ShapeCost(shape)
                                          - DtypeCost(dtype) - TermCost(terms)}} :
        terms \in UNION {TermTable[Len(names)][b] :
                            b \in 0..(c - NameCost(names) - ShapeCost(shape)
                                        - DtypeCost(dtype))}} :
        dtype \in {d \in Dtypes : NameCost(names) + ShapeCost(shape) + DtypeCost(d) <= c}} :
        shape \in {sh \in Shapes : NameCost(names) + ShapeCost(sh) <= c}} :
        names \in {n \in NameLists : NameCost(n) <= c}}

ByCost == [c \in 0..Budget |-> PolysOfCost(c)]

\* every argument after the second weighs ArgCost
ArgCost == 2

\* a call made on the result of another call weighs ChainCost
ChainCost == 2

RECURSIVE TuplesOfCost(_, _)
TuplesOfCost(n, c) ==
    IF n = 1 THEN {<<p>> : p \in ByCost[c]}
    ELSE UNION {{<<p>> \o t : p \in ByCost[a], t \in TuplesOfCost(n - 1, c - a)} :
                   a \in 0..c}

\* the argument tuples of weight c with three arguments or more
LongInputsOfCost(c) ==
    UNION {TuplesOfCost(n, c - ArgCost * (n - 2)) :
              n \in {m \in 3..(2 + Budget) : ArgCost * (m - 2) <= c}}

LongInputs == [c \in 0..Budget |-> LongInputsOfCost(c)]

\* args holds a tuple of one, two or more arguments of total weight c
InputsOfCost(c) ==
    \/ \E p \in ByCost[c] : args = <<p>>
    \/ \E a \in 0..c : \E p \in ByCost[a], q \in ByCost[c - a] : args = <<p, q>>
    \/ args \in LongInputs[c]

(***************************************************************************)
(* The caller: one call on the arguments it holds, then possibly another   *)
(* call on what the first returned.                                        *)
(***************************************************************************)
NoResult == [err |-> "none", val |-> <<>>]

NoWrite == [err |-> "none", k |-> 0, where |-> "all", ret |-> 0,
            args |-> <<>>, val |-> <<>>]

Init ==
    /\ \E c \in 0..Budget :
           /\ InputsOfCost(c)
           /\ fuel = Budget - c
    /\ op = "input"
    /\ res = NoResult
    /\ origin = "input"
    /\ resId = <<>>
    /\ wrote = NoWrite

\* the objects a call returns when it builds every array it returns
Fresh(result) ==
    IF result.err # "none" THEN <<>>
    ELSE [i \in DOMAIN result.val |-> Len(args) + i]

\* `return polys` of align_indeterminants when common_names is empty: the
\* list of the arguments themselves (aspolynomial hands a polynomial array
\* back as it is)
SameOrFresh(result) ==
    IF result.err = "none" /\ common_names(args) = <<>>
    THEN [i \in DOMAIN args |-> i]
    ELSE Fresh(result)

Call(name, result, ids) ==
    /\ op = "input"
    /\ op' = name
    /\ res' = result
    /\ resId' = ids
    /\ UNCHANGED <<args, origin, fuel, wrote>>

CallAlignShape ==
    Call("align_shape", align_shape(args), Fresh(align_shape(args)))

CallAlignIndeterminants ==
    Call("align_indeterminants", align_indeterminants(args),
         SameOrFresh(align_indeterminants(args)))

CallAlignExponents ==
    Call("align_exponents", align_exponents(args), Fresh(align_exponents(args)))

CallAlignDtype ==
    Call("align_dtype", align_dtype(args), Fresh(align_dtype(args)))

CallAlignPolynomials ==
    Call("align_polynomials", align_polynomials(args),
         Fresh(align_polynomials(args)))

CallAdd ==
    /\ Len(args) = 2
    /\ Call("add", add(args[1], args[2]), Fresh(add(args[1], args[2])))

\* every holder of the object `id` sees what was written into it
Seen(arrays, ids, id, content) ==
    [i \in DOMAIN arrays |-> IF ids[i] = id THEN content ELSE arrays[i]]

\* the caller adds the first and the last array the call returned into the
\* k-th one: add(res.val[1], res.val[-1], out=res.val[k], where=where)
Written(k, where, result) ==
    /\ args' = Seen(args, [i \in DOMAIN args |-> i], resId[k], result.out)
    /\ res' = [err |-> "none", val |-> Seen(res.val, resId, resId[k], result.out)]
    /\ wrote' = [err |-> result.err, k |-> k, where |-> where,
                 ret |-> IF result.err = "none" THEN resId[k] ELSE 0,
                 args |-> args, val |-> res.val]

CallAddOut ==
    /\ op \notin {"input", "out"}
    /\ res.err = "none"
    /\ fuel >= ChainCost
    /\ \E k \in DOMAIN res.val : \E where \in Wheres :
           Written(k, where,
                   add_out(res.val[1], res.val[Len(res.val)], res.val[k], where))
    /\ op' = "out"
    /\ fuel' = fuel - ChainCost
    /\ UNCHANGED <<origin, resId>>

\* the caller passes what the last call returned to the next call
Feed ==
    /\ op # "input"
    /\ res.err = "none"
    /\ fuel >= ChainCost
    /\ args' = res.val
    /\ origin' = op
    /\ op' = "input"
    /\ res' = NoResult
    /\ resId' = <<>>
    /\ wrote' = NoWrite
    /\ fuel' = fuel - ChainCost

Next ==
    \/ CallAlignShape
    \/ CallAlignIndeterminants
    \/ CallAlignExponents
    \/ CallAlignDtype
    \/ CallAlignPolynomials
    \/ CallAdd
    \/ CallAddOut
    \/ Feed

Spec == Init /\ [][Next]_vars

(***************************************************************************)
(* What the claims speak of.                                               *)
(***************************************************************************)
Returned(name) == op = name /\ res.err = "none"

Raised == op # "input" /\ res.err # "none"

\* the common shape of a list of shapes under the dense-array rule, if any
RECURSIVE BroadcastAll(_)
BroadcastAll(shapes) ==
    IF Len(shapes) = 1 THEN [ok |-> TRUE, shape |-> shapes[1]]
    ELSE LET rest == BroadcastAll(Tail(shapes))
         IN  IF rest.ok /\ Broadcastable(Head(shapes), rest.shape)
             THEN [ok |-> TRUE, shape |-> BroadcastShape(Head(shapes), rest.shape)]
             ELSE [ok |-> FALSE, shape |-> <<>>]

ArgShapes == [i \in DOMAIN args |-> ShapeOf(args[i])]

\* two or more arrays are aligned: one name list, one exponent list, one
\* shape and one dtype
Aligned(polys) ==
    \A i, j \in DOMAIN polys :
        /\ polys[i].names = polys[j].names
        /\ polys[i].exponents = polys[j].exponents
        /\ ShapeOf(polys[i]) = ShapeOf(polys[j])
        /\ DtypeOf(polys[i]) = DtypeOf(polys[j])

\* the monomial of a term slot: the names with a non-zero exponent, each
\* with its exponent
Monomial(poly, i) ==
    {<<poly.names[k], poly.exponents[i][k]>> :
        k \in {n \in DOMAIN poly.names : poly.exponents[i][n] # 0}}

Monomials(poly) == {Monomial(poly, i) : i \in DOMAIN poly.exponents}

\* the coefficient of monomial m at position pos of poly seen at `shape`
\* (an absent monomial has coefficient 0)
CoefAt(poly, m, shape, pos) ==
    SumSeq([i \in DOMAIN poly.exponents |->
               IF Monomial(poly, i) = m
               THEN BroadcastTo(poly.coefficients[i].data,
                                poly.coefficients[i].shape, shape)[pos]
               ELSE 0])

\* p and q are the same polynomial at every position of `shape`
SameValue(p, q, shape) ==
    \A m \in Monomials(p) \cup Monomials(q) :
        \A pos \in 1..Prod(shape) :
            CoefAt(p, m, shape, pos) = CoefAt(q, m, shape, pos)

(***************************************************************************)
(* C1                                                                      *)
(***************************************************************************)
\* C1: for arguments of broadcastable shapes, all outputs of
\* align_polynomials have the same names, the same exponent tuples in the
\* same order, the same shape and the same dtype.
AlignPolynomialsAligns ==
    (Returned("align_polynomials") /\ BroadcastAll(ArgShapes).ok)
        => Aligned(res.val)

(***************************************************************************)
(* C2                                                                      *)
(***************************************************************************)
\* C2: whatever an alignment function returns represents, input by input,
\* the polynomial it was given: at every position of the broadcast shape
\* (align_shape, align_polynomials) or of the unchanged shape of the input
\* (align_indeterminants, align_exponents, align_dtype) every monomial has
\* the coefficient it had in the input, absent monomials counting as 0.
AlignmentKeepsValue ==
    /\ (/\ Returned("align_shape") \/ Returned("align_polynomials")
        /\ BroadcastAll(ArgShapes).ok)
           => \A i \in DOMAIN args :
                  SameValue(args[i], res.val[i], BroadcastAll(ArgShapes).shape)
    /\ (\/ Returned("align_indeterminants")
        \/ Returned("align_exponents")
        \/ Returned("align_dtype"))
           => \A i \in DOMAIN args :
                  /\ ShapeOf(res.val[i]) = ShapeOf(args[i])
                  /\ SameValue(args[i], res.val[i], ShapeOf(args[i]))

\* align_polynomials has returned two arrays after broadcasting the first,
\* adding a name and a term slot to it and casting its coefficients
AlignmentKeepsValueWitness ==
    /\ Returned("align_polynomials")
    /\ Len(args) = 2
    /\ ShapeOf(res.val[1]) # ShapeOf(args[1])
    /\ res.val[1].names # args[1].names
    /\ Len(res.val[1].exponents) > Len(args[1].exponents)
    /\ DtypeOf(res.val[1]) # DtypeOf(args[1])
    /\ numpy_any(args[1].coefficients[1])

(***************************************************************************)
(* C3                                                                      *)
(***************************************************************************)
\* C3: align_polynomials applied to what align_polynomials returned returns
\* the same arrays: names, exponent tuples and their order, shape, dtype and
\* coefficients.
AlignmentIdempotent ==
    Returned("align_polynomials") => align_polynomials(res.val) = Ok(res.val)

\* the caller has aligned two arrays, passed the result to align_polynomials
\* again and got back what it passed; the first call had added term slots
AlignmentIdempotentWitness ==
    /\ origin = "align_polynomials"
    /\ Returned("align_polynomials")
    /\ res.val = args
    /\ Len(args) = 2
    /\ Len(args[1].exponents) > 1
    /\ ~numpy_any(args[1].coefficients[2])

(***************************************************************************)
(* C4                                                                      *)
(***************************************************************************)
\* C4: for arguments of broadcastable shapes every output of align_shape has
\* the common broadcast shape of the inputs, and (the postcondition written
\* at the end of align_shape) the shape of `common`.
AlignShapeBroadcasts ==
    (Returned("align_shape") /\ BroadcastAll(ArgShapes).ok)
        => \A i \in DOMAIN res.val :
               /\ ShapeOf(res.val[i]) = BroadcastAll(ArgShapes).shape
               /\ CommonAfter(args, PyOne).kind = "array"
                      => ShapeOf(res.val[i]) = CommonAfter(args, PyOne).shape

(***************************************************************************)
(* C5                                                                      *)
(***************************************************************************)
\* C5: every output of align_shape has the ordered exponent list of its
\* input: no term slot is dropped, zero or not.
AlignShapeKeepsSlots ==
    Returned("align_shape")
        => \A i \in DOMAIN args : res.val[i].exponents = args[i].exponents

(***************************************************************************)
(* C6                                                                      *)
(***************************************************************************)
\* C6: when the shapes of the arguments are not broadcastable, align_shape,
\* align_polynomials and add raise and return nothing.
UnbroadcastableRaises ==
    (/\ op \in {"align_shape", "align_polynomials", "add"}
     /\ ~BroadcastAll(ArgShapes).ok)
        => (res.err # "none" /\ res.val = <<>>)

(***************************************************************************)
(* C7                                                                      *)
(***************************************************************************)
\* the names of the arguments that are not constant
NonConstantNames ==
    UNION {Range(args[i].names) : i \in {j \in DOMAIN args : ~isconstant(args[j])}}

\* names lists exactly the set S in lexicographic order
SortedListOf(names, S) ==
    /\ Range(names) = S
    /\ \A a, b \in DOMAIN names : a < b => NameRank(names[a]) < NameRank(names[b])

\* C7: every array align_indeterminants returns has the sorted union of the
\* names of the non-constant inputs as its name list; the exponent of a name
\* the input had is the input's, the exponent of any other name is 0.  This
\* holds for constant inputs with names of their own too.
AlignIndeterminantsUnifies ==
    Returned("align_indeterminants")
        => \A i \in DOMAIN args :
               /\ SortedListOf(res.val[i].names, NonConstantNames)
               /\ Len(res.val[i].exponents) = Len(args[i].exponents)
               /\ \A r \in DOMAIN res.val[i].exponents :
                      \A c \in DOMAIN res.val[i].names :
                          res.val[i].exponents[r][c] =
                              IF res.val[i].names[c] \in Range(args[i].names)
                              THEN args[i].exponents[r][
                                       IndexOf(args[i].names, res.val[i].names[c])]
                              ELSE 0

(***************************************************************************)
(* C8                                                                      *)
(***************************************************************************)
SameNames(polys) == \A i \in DOMAIN polys : polys[i].names = polys[1].names

\* the arrays align_exponents merges: its arguments, passed through
\* align_indeterminants first when their name lists differ
Merged == IF SameNames(args) THEN args ELSE align_indeterminants(args).val

FirstHolder(polys, e) ==
    SetMin({i \in DOMAIN polys : e \in Range(polys[i].exponents)})

\* e comes before f in the stable union: it is first met in an earlier
\* array, or in the same array at an earlier slot
Before(polys, e, f) ==
    \/ FirstHolder(polys, e) < FirstHolder(polys, f)
    \/ /\ FirstHolder(polys, e) = FirstHolder(polys, f)
       /\ IndexOf(polys[FirstHolder(polys, e)].exponents, e)
              < IndexOf(polys[FirstHolder(polys, e)].exponents, f)

StableUnion(list, polys) ==
    /\ Range(list) = UNION {Range(polys[i].exponents) : i \in DOMAIN polys}
    /\ \A a, b \in DOMAIN list : a < b => Before(polys, list[a], list[b])

AlignDtypePromotes ==
    Returned("align_dtype")
        => \A i \in DOMAIN args :
               /\ DtypeOf(res.val[i]) =
                      ResultTypeAll([j \in DOMAIN args |-> DtypeOf(args[j])])
               /\ res.val[i].exponents = args[i].exponents
               /\ \A k \in DOMAIN args[i].coefficients :
                      /\ res.val[i].coefficients[k].shape = args[i].coefficients[k].shape
                      /\ res.val[i].coefficients[k].data = args[i].coefficients[k].data

(***************************************************************************)
(* C10                                                                     *)
(***************************************************************************)
\* C10: for arguments of broadcastable shapes add(x1, x2) returns an array
\* of the broadcast shape in which every monomial has, at every position,
\* the sum of its coefficients in x1 and x2; add(x2, x1) returns the same
\* polynomial array.
AddSums ==
    (op = "add" /\ BroadcastAll(ArgShapes).ok)
        => LET shape == BroadcastAll(ArgShapes).shape
               back  == add(args[2], args[1])
           IN  /\ res.err = "none"
               /\ ShapeOf(res.val[1]) = shape
               /\ \A m \in Monomials(res.val[1]) \cup Monomials(args[1])
                               \cup Monomials(args[2]) :
                      \A pos \in 1..Prod(shape) :
                          CoefAt(res.val[1], m, shape, pos) =
                              CoefAt(args[1], m, shape, pos)
                                  + CoefAt(args[2], m, shape, pos)
               /\ back.err = "none"
               /\ ShapeOf(back.val[1]) = shape
               /\ SameValue(res.val[1], back.val[1], shape)

\* the same, read only of the calls that return
AddSumsWhenReturned ==
    (Returned("add") /\ BroadcastAll(ArgShapes).ok)
        => LET shape == BroadcastAll(ArgShapes).shape
               back  == add(args[2], args[1])
           IN  /\ ShapeOf(res.val[1]) = shape
               /\ \A m \in Monomials(res.val[1]) \cup Monomials(args[1])
                               \cup Monomials(args[2]) :
                      \A pos \in 1..Prod(shape) :
                          CoefAt(res.val[1], m, shape, pos) =
                              CoefAt(args[1], m, shape, pos)
                                  + CoefAt(args[2], m, shape, pos)
               /\ back.err = "none"
                      => /\ ShapeOf(back.val[1]) = shape
                         /\ SameValue(res.val[1], back.val[1], shape)

(***************************************************************************)
(* C11                                                                     *)
(***************************************************************************)
\* no term slot of poly is zero at every position, or poly is the single
\* zero-constant slot
Cleaned(poly) ==
    \/ \A i \in DOMAIN poly.exponents : numpy_any(poly.coefficients[i])
    \/ /\ Len(poly.exponents) = 1
       /\ \A n \in DOMAIN poly.exponents[1] : poly.exponents[1][n] = 0

\* out as it was before the write, and as it is after it
OutBefore == wrote.val[wrote.k]

OutAfter == res.val[wrote.k]

\* the coefficients add would write at position pos of slot i of out
SumAt(i, pos) ==
    CoefAt(wrote.val[1], Monomial(OutBefore, i), ShapeOf(OutBefore), pos)
        + CoefAt(wrote.val[Len(wrote.val)], Monomial(OutBefore, i),
                 ShapeOf(OutBefore), pos)

\* C11: without out, add returns an array with no all-zero term slot (but
\* the single zero-constant slot of a zero sum).  With an explicit out, add
\* returns the out object itself; the names, the term slots and their order,
\* the shape and the dtype of out are what they were, zero slots included,
\* and every element where does not select is what it was.
AddCleansOnlyWithoutOut ==
    /\ Returned("add") => Cleaned(res.val[1])
    /\ op = "out"
           => /\ wrote.err = "none" => wrote.ret = resId[wrote.k]
              /\ OutAfter.names = OutBefore.names
              /\ OutAfter.exponents = OutBefore.exponents
              /\ Len(OutAfter.coefficients) = Len(OutBefore.coefficients)
              /\ \A i \in DOMAIN OutBefore.coefficients :
                     /\ OutAfter.coefficients[i].shape = OutBefore.coefficients[i].shape
                     /\ OutAfter.coefficients[i].dtype = OutBefore.coefficients[i].dtype
                     /\ \A pos \in 1..SizeOf(OutBefore) :
                            ~Selected(wrote.where, pos)
                                => OutAfter.coefficients[i].data[pos]
                                       = OutBefore.coefficients[i].data[pos]

\* add has written into an out of two elements or more that had an all-zero
\* slot, under a where that selects the first element only: the slot is
\* still there, its first element is the sum and its second element is the
\* zero it was, not the sum
AddCleansOnlyWithoutOutWitness ==
    /\ op = "out"
    /\ wrote.err = "none"
    /\ wrote.where = "first"
    /\ SizeOf(OutBefore) >= 2
    /\ \E i \in DOMAIN OutBefore.exponents :
           /\ ~numpy_any(OutBefore.coefficients[i])
           /\ OutAfter.exponents[i] = OutBefore.exponents[i]
           /\ OutAfter.coefficients[i].data[1] = SumAt(i, 1)
           /\ OutAfter.coefficients[i].data[1] # 0
           /\ OutAfter.coefficients[i].data[2] = 0
           /\ SumAt(i, 2) # 0

(***************************************************************************)
(* C12                                                                     *)
(***************************************************************************)
\* no two exponent tuples are equal, every exponent tuple has one entry per
\* name, and there is one coefficient array per exponent tuple
WellFormed(poly) ==
    /\ \A i, j \in DOMAIN poly.exponents :
           poly.exponents[i] = poly.exponents[j] => i = j
    /\ ArityOk(poly.exponents, poly.names)
    /\ Len(poly.coefficients) = Len(poly.exponents)

\* C12: every polynomial array the caller holds or gets back, after any
\* sequence of calls of the alignment functions and add on well-formed
\* inputs, has distinct exponent tuples of one entry per name and one
\* coefficient array per exponent tuple.
TermSlotsWellFormed ==
    /\ \A i \in DOMAIN args : WellFormed(args[i])
    /\ \A i \in DOMAIN res.val : WellFormed(res.val[i])

\* the second call of a sequence has returned arrays over two names with
\* two term slots or more, the first call having been another function
TermSlotsWellFormedWitness ==
    /\ origin \notin {"input", op}
    /\ op \notin {"input", "out"}
    /\ res.err = "none"
    /\ Len(res.val) >= 2
    /\ \A i \in DOMAIN res.val :
           /\ Len(res.val[i].names) = 2
           /\ Len(res.val[i].exponents) >= 2

(***************************************************************************)
(* C13                                                                     *)
(***************************************************************************)
\* C13: no call of an alignment function or of add without out changes an
\* argument, and a later add(..., out=...) into an array a call returned
\* changes neither an argument of that call nor another array it returned.
InputsImmutable ==
    [][/\ op' # "input" => args' = args
       /\ op' = "out"
              => \A j \in DOMAIN res.val :
                     j # wrote'.k => res'.val[j] = res.val[j]]_vars

\* the same of the calls alone, and of writes into an array the call built
InputsImmutableWhenFresh ==
    [][/\ op' \notin {"input", "out"} => args' = args
       /\ (op' = "out" /\ resId[wrote'.k] > Len(args))
              => /\ args' = args
                 /\ \A j \in DOMAIN res.val :
                        j # wrote'.k => res'.val[j] = res.val[j]]_vars

====
